---- MODULE Spec2Model ----
(***************************************************************************)
(* Model of the LinkGuard moderation bot (src/index.js).                   *)
(*                                                                         *)
(* Text (message bodies, captions, templates, display names, rendered      *)
(* notices) is a sequence of tokens; a placeholder such as "{name}" or a   *)
(* URL such as "http://x.com" is one token.  Every `await` of the message  *)
(* handler is one step of a handler process, so that handlers of messages  *)
(* delivered back to back interleave as they do on the Node event loop.    *)
(***************************************************************************)
EXTENDS Integers, Sequences, FiniteSets, TLC

\* ---------------------------------------------------------------- bounds
\* messages delivered in a run of Spec
MaxMsgs == 2
\* messages delivered in a run of SpecScenario
MaxScenarioMsgs == 3
\* largest configured WARN_THRESHOLD
MaxThreshold == 2
\* handler invocations that may be in flight at once
NumHandlers == 2

\* ------------------------------------------------------------ identifiers
Groups == {"g1", "g2"}
Users == {"u1", "u2"}
PrivateChats == {"dm"}
ChatIds == Groups \cup PrivateChats
Me == "bot"

\* the JavaScript value undefined (a missing record, participant or local)
Undefined == [undefined |-> TRUE]

\* --------------------------------------------------------- configuration
WARN_TEMPLATE == <<"! ", "{name}", ", links are not allowed. Warning ", "{count}", "/", "{limit}">>
KICK_TEMPLATE == <<"!! ", "{name}", " exceeded ", "{limit}", " warnings. Removing from group...">>
\* process.env.ENFORCE_GROUP_IDS after .split(','): '' and ' g1,'
EnforceEnvs == {<<"">>, <<" g1", "">>}

\* String.prototype.trim on the pieces above
Trim(piece) == IF piece = " g1" THEN "g1" ELSE piece

\* .map(s => s.trim()).filter(Boolean)
parseEnforceGroupIds(pieces) ==
    SelectSeq([i \in 1..Len(pieces) |-> Trim(pieces[i])], LAMBDA x : x # "")

Thresholds == 1..MaxThreshold

\* ------------------------------------------------------------------ text
LinkTokens == {"http://x.com", "www.x.com", "example.io"}

LINK_REGEX(text) == \E i \in 1..Len(text) : text[i] \in LinkTokens

\* a prefix test that expects the command in capitals
StartsWithLinkguard_caps(body) == Len(body) >= 1 /\ body[1] = "!LINKGUARD"

StartsWithLinkguard(body) == Len(body) >= 1 /\ body[1] = "!linkguard"

StatusRegex(body) ==
    /\ Len(body) >= 3
    /\ body[1] \in {"!linkguard", "!LINKGUARD"}
    /\ body[2] = " "
    /\ body[3] \in {"status", "STATUS"}

\* index of the first occurrence of token pat in s, 0 when there is none
IndexOf(s, pat) ==
    IF \E i \in 1..Len(s) : s[i] = pat
    THEN CHOOSE i \in 1..Len(s) : s[i] = pat /\ \A j \in 1..(i - 1) : s[j] # pat
    ELSE 0

RECURSIVE Expand(_, _, _, _)
\* String.prototype.replace interprets $$, $&, $` and $' in the replacement
Expand(repl, pat, before, after) ==
    IF repl = <<>> THEN <<>>
    ELSE LET t == Head(repl)
             e == CASE t = "$$" -> <<"$">>
                    [] t = "$&" -> <<pat>>
                    [] t = "$`" -> before
                    [] t = "$'" -> after
                    [] OTHER -> <<t>>
         IN  e \o Expand(Tail(repl), pat, before, after)

ReplaceFirst(s, pat, repl) ==
    LET i == IndexOf(s, pat)
    IN  IF i = 0 THEN s
        ELSE LET before == SubSeq(s, 1, i - 1)
                 after == SubSeq(s, i + 1, Len(s))
             IN  before \o Expand(repl, pat, before, after) \o after

format(tpl, ctx) ==
    ReplaceFirst(
        ReplaceFirst(
            ReplaceFirst(tpl, "{name}", ctx.name),
            "{count}", <<ToString(ctx.count)>>),
        "{limit}", <<ToString(ctx.limit)>>)

\* ----------------------------------------------------------------- store
keyFor(groupId, userId) == "warn:" \o groupId \o ":" \o userId

Keys == {keyFor(g, u) : g \in ChatIds, u \in Users}

getWarningsOf(st, groupId, userId) ==
    IF st[keyFor(groupId, userId)] # Undefined
    THEN st[keyFor(groupId, userId)]
    ELSE [count |-> 0, name |-> <<>>]

\* incrementWarning that ignores what getItem returned
incrementedRecord_fresh(got, name, now) ==
    [count |-> 1, name |-> name, firstAt |-> now]

\* the record incrementWarning hands to setItem, from what getItem returned
incrementedRecord(got, name, now) ==
    LET record == IF got # Undefined THEN got
                  ELSE [count |-> 0, name |-> name, firstAt |-> now]
    IN  [record EXCEPT !.count = @ + 1, !.name = name]

\* a removeItem that zeroes the count of the record and keeps it
removeItem_tombstone(st, k) ==
    [st EXCEPT ![k] = IF @ = Undefined THEN @ ELSE [@ EXCEPT !.count = 0]]

\* a removeItem that clears the whole store (storage.clear)
removeItem_clear(st, k) == [x \in DOMAIN st |-> Undefined]

\* storage.removeItem(k): removes the record, a no-op when there is none
removeItem(st, k) == [st EXCEPT ![k] = Undefined]

\* a resetWarnings that forgets to remove the record
resetWarningsOf_noop(st, groupId, userId) == st

resetWarningsOf(st, groupId, userId) == removeItem(st, keyFor(groupId, userId))

\* ------------------------------------------------------- transport input
Shapes ==
    { [body |-> <<"hello">>, caption |-> <<>>, media |-> "none"],
      [body |-> <<"see ", "http://x.com">>, caption |-> <<>>, media |-> "none"],
      [body |-> <<>>, caption |-> <<>>, media |-> "ptt"],
      [body |-> <<>>, caption |-> <<"www.x.com">>, media |-> "image"],
      [body |-> <<"!linkguard", " ", "status">>, caption |-> <<>>, media |-> "none"],
      [body |-> <<"!linkguard", " ", "reset">>, caption |-> <<>>, media |-> "none"],
      [body |-> <<"!linkguard", " ", "reset", " ", "example.io">>, caption |-> <<>>, media |-> "none"] }

Messages ==
    { [chat |-> c, author |-> u, body |-> s.body, caption |-> s.caption, media |-> s.media] :
        c \in ChatIds, u \in Users, s \in Shapes }

SenderRanks == {"member", "admin"}
BotRanks == {"none", "member", "admin", "superadmin"}

Participant(id, rank) ==
    [id |-> id, isAdmin |-> rank \in {"admin", "superadmin"}, isSuperAdmin |-> rank = "superadmin"]

GroupName(c) == <<"Group-" \o c>>

\* what msg.getChat() resolves to
ChatSnapshot(c, author, senderRank, botRank) ==
    IF c \notin PrivateChats
    THEN [isGroup |-> TRUE, id |-> c, name |-> GroupName(c),
          participants |-> {Participant(author, senderRank)} \cup
                           (IF botRank = "none" THEN {} ELSE {Participant(Me, botRank)})]
    ELSE [isGroup |-> FALSE, id |-> c, name |-> <<c>>, participants |-> {}]

\* what msg.getContact() resolves to
Contacts(u) ==
    { [id |-> u, pushname |-> <<"Ann">>, verifiedName |-> <<>>, number |-> <<"555">>],
      [id |-> u, pushname |-> <<>>, verifiedName |-> <<>>, number |-> <<>>] }

\* participants.find(p => p.id._serialized === id)
Find(participants, id) ==
    IF \E p \in participants : p.id = id
    THEN CHOOSE p \in participants : p.id = id
    ELSE Undefined

\* an isClientAdmin that only checks that the bot is a participant
isClientAdmin_anyParticipant(groupChat) ==
    groupChat.isGroup /\ Find(groupChat.participants, Me) # Undefined

isClientAdmin(groupChat) ==
    LET mine == Find(groupChat.participants, Me)
    IN  IF ~groupChat.isGroup THEN FALSE
        ELSE IF mine = Undefined THEN FALSE
        ELSE mine.isAdmin \/ mine.isSuperAdmin

\* sender.pushname || sender.verifiedName || sender.number || 'member'
senderNameOf(sender) ==
    IF sender.pushname # <<>> THEN sender.pushname
    ELSE IF sender.verifiedName # <<>> THEN sender.verifiedName
    ELSE IF sender.number # <<>> THEN sender.number
    ELSE <<"member">>

\* ------------------------------------------------------------------ state
VARIABLES
    WARN_THRESHOLD,     \* parsed once from the environment
    ENFORCE_GROUP_IDS,  \* parsed once from the environment
    store,              \* node-persist: key -> record, Undefined when absent
    handlers,           \* the running invocations of the 'message' callback
    delivered           \* number of 'message' events emitted so far

vars == <<WARN_THRESHOLD, ENFORCE_GROUP_IDS, store, handlers, delivered>>

Hs == 1..NumHandlers

Idle ==
    [pc |-> "idle", msg |-> Undefined, chat |-> Undefined, sender |-> Undefined,
     senderName |-> <<>>, record |-> Undefined, count |-> 0, deleted |-> FALSE,
     sent |-> <<>>, removal |-> "none", reset |-> FALSE, e |-> "", err |-> ""]

Init ==
    /\ WARN_THRESHOLD \in Thresholds
    /\ ENFORCE_GROUP_IDS \in {parseEnforceGroupIds(e) : e \in EnforceEnvs}
    /\ store = [k \in Keys |-> Undefined]
    /\ handlers = [h \in Hs |-> Idle]
    /\ delivered = 0

Includes(seq, x) == \E i \in 1..Len(seq) : seq[i] = x

Set(h, rec) == handlers' = [handlers EXCEPT ![h] = rec]

\* the handler returns
Return(H) == [H EXCEPT !.pc = "done"]

\* a handler without the outer try/catch: the rejection leaves the callback
Catch_rethrow(H, what) == [H EXCEPT !.pc = "crashed", !.err = what]

\* an awaited call rejects outside the inner try: catch (err), console.error
Catch(H, what) == [H EXCEPT !.pc = "done", !.err = what]

cfg == <<WARN_THRESHOLD, ENFORCE_GROUP_IDS>>

\* the transport emits 'message'; the callback starts and runs to its first await
Deliver(h, m, max) ==
    /\ handlers[h].pc \in {"idle", "done"}
    /\ delivered < max
    /\ delivered' = delivered + 1
    /\ Set(h, [Idle EXCEPT !.pc = "getChat", !.msg = [id |-> delivered + 1] @@ m])
    /\ UNCHANGED <<cfg, store>>

\* const chat = await msg.getChat()
GetChat(h, ok, senderRank, botRank) ==
    LET H == handlers[h] IN
    /\ H.pc = "getChat"
    /\ Set(h, IF ok
              THEN [H EXCEPT !.pc = "getContact",
                             !.chat = ChatSnapshot(H.msg.chat, H.msg.author, senderRank, botRank)]
              ELSE Catch(H, "getChat"))
    /\ UNCHANGED <<cfg, store, delivered>>

\* const sender = await msg.getContact()
GetContact(h, ok, contact) ==
    LET H == handlers[h] IN
    /\ H.pc = "getContact"
    /\ contact.id = H.msg.author
    /\ Set(h, IF ok
              THEN [H EXCEPT !.pc = "filter", !.sender = contact]
              ELSE Catch(H, "getContact"))
    /\ UNCHANGED <<cfg, store, delivered>>

\* an exemption that looks at isSuperAdmin instead of isAdmin
senderIsAdmin_superOnly(chat, sender) ==
    LET found == Find(chat.participants, sender.id)
    IN  IF found = Undefined THEN FALSE ELSE found.isSuperAdmin

\* chat.groupMetadata?.participants.find(p => ... === sender.id._serialized)?.isAdmin
senderIsAdmin(chat, sender) ==
    LET found == Find(chat.participants, sender.id)
    IN  IF found = Undefined THEN FALSE ELSE found.isAdmin

\* a scoping check without the "empty list enforces everywhere" case
enforced_listOnly(chatId) == Includes(ENFORCE_GROUP_IDS, chatId)

\* !(ENFORCE_GROUP_IDS.length && !ENFORCE_GROUP_IDS.includes(chat.id._serialized))
enforced(chatId) ==
    ~(Len(ENFORCE_GROUP_IDS) # 0 /\ ~Includes(ENFORCE_GROUP_IDS, chatId))

\* msg.hasMedia && msg.type === 'ptt'
isVoice(msg) == msg.media = "ptt"

\* LINK_REGEX.test(msg.body || '') || (msg.caption && LINK_REGEX.test(msg.caption))
hasLinkIn(msg) == LINK_REGEX(msg.body) \/ (msg.caption # <<>> /\ LINK_REGEX(msg.caption))

\* an off-by-one threshold test
Escalates_gt(count) == count > WARN_THRESHOLD

\* if (count >= WARN_THRESHOLD)
Escalates(count) == count >= WARN_THRESHOLD

\* the synchronous routing between getContact and the next awaited call
Routed(H) ==
    LET chat == H.chat
        msg == H.msg
        isAdmin == senderIsAdmin(chat, H.sender)
        isVoiceMessage == isVoice(msg)
        issuer == Find(chat.participants, msg.author)
        adminsOnly == isClientAdmin(chat) \/
                      (IF issuer = Undefined THEN FALSE ELSE issuer.isAdmin)
        hasLink == hasLinkIn(msg)
        moderate == IF ~hasLink /\ ~isVoiceMessage
                    THEN Return(H)
                    ELSE [H EXCEPT !.pc = "getItem", !.senderName = senderNameOf(H.sender)]
    IN  IF ~chat.isGroup \/ isAdmin THEN Return(H)
        ELSE IF ~enforced(chat.id) THEN Return(H)
        ELSE IF StartsWithLinkguard(msg.body)
             THEN IF ~adminsOnly THEN Return(H)
                  ELSE IF StatusRegex(msg.body) THEN [H EXCEPT !.pc = "sendStatus"]
                  ELSE moderate
             ELSE moderate

Filter(h) ==
    LET H == handlers[h] IN
    /\ H.pc = "filter"
    /\ Set(h, Routed(H))
    /\ UNCHANGED <<cfg, store, delivered>>

StatusText(chat) ==
    <<"LinkGuard active. Threshold: ", ToString(WARN_THRESHOLD), ". Group: ">> \o chat.name

\* await chat.sendMessage(`LinkGuard active. ...`); return
SendStatus(h, ok) ==
    LET H == handlers[h] IN
    /\ H.pc = "sendStatus"
    /\ Set(h, IF ok
              THEN Return([H EXCEPT !.sent = Append(@, StatusText(H.chat))])
              ELSE Catch(H, "sendMessage"))
    /\ UNCHANGED <<cfg, store, delivered>>

\* an increment that takes a rejected getItem for "no record yet"
GetItem_swallow(h, ok) ==
    LET H == handlers[h]
        k == keyFor(H.chat.id, H.sender.id)
    IN
    /\ H.pc = "getItem"
    /\ Set(h, [H EXCEPT !.pc = "setItem",
                        !.record = incrementedRecord(IF ok THEN store[k] ELSE Undefined,
                                                     H.senderName, delivered)])
    /\ UNCHANGED <<cfg, store, delivered>>

\* incrementWarning up to its second await: getItem, then count += 1, name = name
GetItem(h, ok) ==
    LET H == handlers[h]
        k == keyFor(H.chat.id, H.sender.id)
    IN
    /\ H.pc = "getItem"
    /\ Set(h, IF ok
              THEN [H EXCEPT !.pc = "setItem",
                             !.record = incrementedRecord(store[k], H.senderName, delivered)]
              ELSE Catch(H, "getItem"))
    /\ UNCHANGED <<cfg, store, delivered>>

\* await storage.setItem(k, record); return record.count
SetItem(h, ok) ==
    LET H == handlers[h]
        k == keyFor(H.chat.id, H.sender.id)
    IN
    /\ H.pc = "setItem"
    /\ IF ok
       THEN /\ store' = [store EXCEPT ![k] = H.record]
            /\ Set(h, [H EXCEPT !.pc = "delete", !.count = H.record.count])
       ELSE /\ store' = store
            /\ Set(h, Catch(H, "setItem"))
    /\ UNCHANGED <<cfg, delivered>>

\* await msg.delete(true), then the branch on count >= WARN_THRESHOLD
Delete(h, ok) ==
    LET H == handlers[h] IN
    /\ H.pc = "delete"
    /\ Set(h, IF ok
              THEN [H EXCEPT !.deleted = TRUE,
                             !.pc = IF Escalates(H.count) THEN "sendKick" ELSE "sendWarn"]
              ELSE Catch(H, "delete"))
    /\ UNCHANGED <<cfg, store, delivered>>

Ctx(H) == [name |-> H.senderName, count |-> H.count, limit |-> WARN_THRESHOLD]

\* await groupChat.sendMessage(format(KICK_TEMPLATE, ...)), then isClientAdmin
SendKick(h, ok) ==
    LET H == handlers[h] IN
    /\ H.pc = "sendKick"
    /\ Set(h, IF ok
              THEN [H EXCEPT !.sent = Append(@, format(KICK_TEMPLATE, Ctx(H))),
                             !.pc = IF isClientAdmin(H.chat) THEN "remove" ELSE "sendCantRemove"]
              ELSE Catch(H, "sendMessage"))
    /\ UNCHANGED <<cfg, store, delivered>>

\* a removal whose failure path also drops the warning record
RemoveParticipants_resetOnFailure(h, ok) ==
    LET H == handlers[h] IN
    /\ H.pc = "remove"
    /\ Set(h, IF ok
              THEN [H EXCEPT !.removal = "ok", !.pc = "sendRemoved"]
              ELSE [H EXCEPT !.removal = "failed", !.pc = "sendFailed", !.e = "removeParticipants"])
    /\ store' = IF ok THEN store ELSE resetWarningsOf(store, H.chat.id, H.sender.id)
    /\ UNCHANGED <<cfg, delivered>>

\* try { await groupChat.removeParticipants([sender.id._serialized])
RemoveParticipants(h, ok) ==
    LET H == handlers[h] IN
    /\ H.pc = "remove"
    /\ Set(h, IF ok
              THEN [H EXCEPT !.removal = "ok", !.pc = "sendRemoved"]
              ELSE [H EXCEPT !.removal = "failed", !.pc = "sendFailed", !.e = "removeParticipants"])
    /\ UNCHANGED <<cfg, store, delivered>>

RemovedText(H) == <<"Removed ">> \o H.senderName

\* await groupChat.sendMessage(`Removed ${senderName}`), still inside the try
SendRemoved(h, ok) ==
    LET H == handlers[h] IN
    /\ H.pc = "sendRemoved"
    /\ Set(h, IF ok
              THEN [H EXCEPT !.sent = Append(@, RemovedText(H)), !.pc = "reset"]
              ELSE [H EXCEPT !.pc = "sendFailed", !.e = "sendMessage"])
    /\ UNCHANGED <<cfg, store, delivered>>

\* await resetWarnings(chat.id._serialized, sender.id._serialized) } catch (e)
ResetWarnings(h, ok) ==
    LET H == handlers[h] IN
    /\ H.pc = "reset"
    /\ IF ok
       THEN /\ store' = resetWarningsOf(store, H.chat.id, H.sender.id)
            /\ Set(h, Return([H EXCEPT !.reset = TRUE]))
       ELSE /\ store' = store
            /\ Set(h, [H EXCEPT !.pc = "sendFailed", !.e = "removeItem"])
    /\ UNCHANGED <<cfg, delivered>>

FailedText(H) == <<"Tried to remove ">> \o H.senderName \o <<" but failed: ", H.e>>

\* catch (e) { await groupChat.sendMessage(`Tried to remove ... but failed: ...`) }
SendFailed(h, ok) ==
    LET H == handlers[h] IN
    /\ H.pc = "sendFailed"
    /\ Set(h, IF ok
              THEN Return([H EXCEPT !.sent = Append(@, FailedText(H))])
              ELSE Catch(H, "sendMessage"))
    /\ UNCHANGED <<cfg, store, delivered>>

CantRemoveText == <<"I can't remove members because I'm not a group admin.">>

\* else { await groupChat.sendMessage(`I can't remove members ...`) }
SendCantRemove(h, ok) ==
    LET H == handlers[h] IN
    /\ H.pc = "sendCantRemove"
    /\ Set(h, IF ok
              THEN Return([H EXCEPT !.sent = Append(@, CantRemoveText)])
              ELSE Catch(H, "sendMessage"))
    /\ UNCHANGED <<cfg, store, delivered>>

\* else { await chat.sendMessage(format(WARN_TEMPLATE, ...)) }
SendWarn(h, ok) ==
    LET H == handlers[h] IN
    /\ H.pc = "sendWarn"
    /\ Set(h, IF ok
              THEN Return([H EXCEPT !.sent = Append(@, format(WARN_TEMPLATE, Ctx(H)))])
              ELSE Catch(H, "sendMessage"))
    /\ UNCHANGED <<cfg, store, delivered>>

\* the steps of handler h after its two context lookups, each awaited call
\* resolving (ok) or rejecting
Effects(h, ok) ==
    \/ Filter(h)
    \/ SendStatus(h, ok)
    \/ GetItem(h, ok)
    \/ SetItem(h, ok)
    \/ Delete(h, ok)
    \/ SendKick(h, ok)
    \/ RemoveParticipants(h, ok)
    \/ SendRemoved(h, ok)
    \/ ResetWarnings(h, ok)
    \/ SendFailed(h, ok)
    \/ SendCantRemove(h, ok)
    \/ SendWarn(h, ok)

AllContacts == UNION {Contacts(u) : u \in Users}

\* messages handled one at a time, in arrival order, with every chat context
\* and every awaited call free to fail
Next ==
    \/ \E m \in Messages : Deliver(1, m, MaxMsgs)
    \/ \E ok \in BOOLEAN :
        \/ \E sr \in SenderRanks, br \in BotRanks : GetChat(1, ok, sr, br)
        \/ \E c \in AllContacts : GetContact(1, ok, c)
        \/ Effects(1, ok)

Spec == Init /\ [][Next]_vars

\* ---------------------------------------------------------------------
\* One member of one enforced group keeps posting links while the bot is a
\* group admin.
ScenarioMessages ==
    {m \in Messages : m.chat = "g1" /\ m.author = "u1" /\ hasLinkIn(m) /\ ~StartsWithLinkguard(m.body)}

ConcMessages == {m \in ScenarioMessages : m.caption = <<>>}

ConcContacts == {c \in Contacts("u1") : c.pushname # <<>>}

Quiet == \A h \in Hs : handlers[h].pc \in {"idle", "done"}

\* the transport emits the events back to back: the handlers interleave at
\* their awaits; every awaited call resolves
NextConc ==
    \E h \in Hs :
        \/ \E m \in ConcMessages : handlers[h].pc = "idle" /\ Deliver(h, m, NumHandlers)
        \/ GetChat(h, TRUE, "member", "admin")
        \/ \E c \in ConcContacts : GetContact(h, TRUE, c)
        \/ Filter(h)
        \/ GetItem(h, TRUE)
        \/ SetItem(h, TRUE)
        \/ Delete(h, TRUE)
        \/ SendKick(h, TRUE)
        \/ RemoveParticipants(h, TRUE)
        \/ SendRemoved(h, TRUE)
        \/ ResetWarnings(h, TRUE)
        \/ SendWarn(h, TRUE)

SpecConc == Init /\ [][NextConc]_vars

\* the events are handled one at a time (each handler finishes before the
\* next event); only removeParticipants may reject
NextScenario ==
    \E h \in Hs :
        \/ \E m \in ScenarioMessages :
            /\ Quiet
            /\ h = (delivered % NumHandlers) + 1
            /\ Deliver(h, m, MaxScenarioMsgs)
        \/ \E br \in {"admin", "superadmin"} : GetChat(h, TRUE, "member", br)
        \/ \E c \in Contacts("u1") : GetContact(h, TRUE, c)
        \/ Filter(h)
        \/ GetItem(h, TRUE)
        \/ SetItem(h, TRUE)
        \/ Delete(h, TRUE)
        \/ SendKick(h, TRUE)
        \/ \E ok \in BOOLEAN : RemoveParticipants(h, ok)
        \/ SendRemoved(h, TRUE)
        \/ ResetWarnings(h, TRUE)
        \/ SendFailed(h, TRUE)
        \/ SendWarn(h, TRUE)

SpecScenario == Init /\ [][NextScenario]_vars

\* ------------------------------------------------------------- properties
WarnText(H) == format(WARN_TEMPLATE, Ctx(H))
KickText(H) == format(KICK_TEMPLATE, Ctx(H))
ZeroValue == [count |-> 0, name |-> <<>>]
NeverSeen == [k \in Keys |-> Undefined]
KeyOf(H) == keyFor(H.chat.id, H.sender.id)
SentIncludes(H, text) == \E i \in 1..Len(H.sent) : H.sent[i] = text

\* the bot holds admin rank among the participants of the chat
BotHoldsAdminRank(chat) ==
    \E p \in chat.participants : p.id = Me /\ (p.isAdmin \/ p.isSuperAdmin)

\* the author of the message holds admin rank among the participants
SenderHoldsAdminRank(H) ==
    \E p \in H.chat.participants : p.id = H.msg.author /\ p.isAdmin

\* C1: when the increments of N handlers of the same (group, user) interleave
\* from an absent record and nothing resets it, the stored count is N once
\* they have all finished, and no two of them return the same count.
C1_NoLostUpdate ==
    (Quiet /\ \A h \in Hs : handlers[h].removal = "none") =>
        LET incs == {h \in Hs : handlers[h].count > 0}
        IN  /\ getWarningsOf(store, "g1", "u1").count = Cardinality(incs)
            /\ \A a, b \in incs : a # b => handlers[a].count # handlers[b].count

\* C2: with the messages handled one after another, the setItem step of
\* incrementWarning returns the count stored before the call plus 1 (1 when
\* the record was absent), and stores a record with the returned count.
C2_SequentialIncrement ==
    [][\A h \in Hs :
        (handlers[h].pc = "setItem" /\ handlers'[h].pc = "delete") =>
            LET H == handlers[h]
            IN  /\ handlers'[h].count = getWarningsOf(store, H.chat.id, H.sender.id).count + 1
                /\ store'[KeyOf(H)] # Undefined
                /\ store'[KeyOf(H)].count = handlers'[h].count]_vars

C2_Witness ==
    \E h \in Hs : /\ handlers[h].pc = "delete"
                  /\ handlers[h].count = 2
                  /\ store[KeyOf(handlers[h])].count = 2

\* C3: after resetWarnings, getWarnings returns the zero-value record, the
\* same value it returns for a key never seen; resetWarnings on an absent
\* record changes nothing and does not fail, and a second reset leaves the
\* store as the first one did.
C3_ResetThenGet ==
    [][\A h \in Hs :
        (handlers[h].pc = "reset" /\ handlers'[h].pc # "reset") =>
            LET H == handlers[h]
            IN  /\ getWarningsOf(store', H.chat.id, H.sender.id) = ZeroValue
                /\ getWarningsOf(store', H.chat.id, H.sender.id)
                     = getWarningsOf(NeverSeen, H.chat.id, H.sender.id)
                /\ handlers'[h].pc = "done" /\ handlers'[h].err = "" /\ handlers'[h].e = ""
                /\ (store[KeyOf(H)] = Undefined => store' = store)
                /\ resetWarningsOf(store', H.chat.id, H.sender.id) = store']_vars

C3_Witness ==
    \E a, b \in Hs :
        /\ a # b
        /\ handlers[a].reset /\ handlers[b].reset
        /\ handlers[a].pc = "done" /\ handlers[b].pc = "done"
        /\ store[KeyOf(handlers[a])] = Undefined

\* C4: once the increment has returned count, the handler is on the Warn path
\* (warn template, no removal) when count < WARN_THRESHOLD and on the Escalate
\* path (kick template first) when count >= WARN_THRESHOLD; a handler that
\* finishes without error has sent exactly one of the two notices.
C4_WarnOrEscalate ==
    \A h \in Hs :
        LET H == handlers[h]
        IN  H.count > 0 =>
            /\ H.count < WARN_THRESHOLD =>
                /\ H.pc \in {"delete", "sendWarn", "done"}
                /\ H.removal = "none"
                /\ H.sent \in {<<>>, <<WarnText(H)>>}
            /\ H.count >= WARN_THRESHOLD =>
                /\ H.pc # "sendWarn"
                /\ H.sent # <<>> => H.sent[1] = KickText(H)
                /\ ~SentIncludes(H, WarnText(H))
            /\ (H.pc = "done" /\ H.err = "") =>
                /\ H.sent # <<>>
                /\ SentIncludes(H, WarnText(H)) # SentIncludes(H, KickText(H))

C4_Witness ==
    \E h \in Hs :
        /\ handlers[h].pc = "done"
        /\ handlers[h].count = WARN_THRESHOLD
        /\ handlers[h].sent # <<>>
        /\ handlers[h].sent[1] = KickText(handlers[h])

\* C5: one member, one enforced group, bot admin, messages one at a time and
\* every call succeeding: the n-th link message gets count n; for n below the
\* threshold it is deleted and warned with no removal; the threshold-th is
\* deleted, gets the kick notice and a removal, and the record is then gone.
C5_EndToEnd ==
    \A h \in Hs :
        LET H == handlers[h]
        IN  (H.pc = "done" /\ H.msg.id <= WARN_THRESHOLD /\ H.removal # "failed") =>
            /\ H.count = H.msg.id
            /\ H.deleted
            /\ H.msg.id < WARN_THRESHOLD =>
                /\ H.sent = <<WarnText(H)>>
                /\ H.removal = "none"
                /\ H.msg.id = delivered => getWarningsOf(store, "g1", "u1").count = H.count
            /\ H.msg.id = WARN_THRESHOLD =>
                /\ H.sent = <<KickText(H), RemovedText(H)>>
                /\ H.removal = "ok"
                /\ H.msg.id = delivered =>
                    /\ store[KeyOf(H)] = Undefined
                    /\ getWarningsOf(store, "g1", "u1").count = 0

C5_Witness ==
    \E a, b \in Hs :
        /\ handlers[a].pc = "done" /\ handlers[b].pc = "done"
        /\ handlers[a].msg.id = 1 /\ handlers[a].sent = <<WarnText(handlers[a])>>
        /\ handlers[b].msg.id = WARN_THRESHOLD /\ handlers[b].msg.id = 2
        /\ handlers[b].removal = "ok"
        /\ store[KeyOf(handlers[b])] = Undefined

\* C6: when removeParticipants fails (bot admin), the failure notice follows
\* the kick notice, the record is not reset and keeps its count, and the next
\* link message of the same member counts one more, is not answered with a
\* warning, and ends with the kick notice and another removal attempt.
C6_RemovalFailureKeepsRecord ==
    \A h \in Hs :
        LET H == handlers[h]
        IN  (H.pc = "done" /\ H.removal = "failed") =>
            /\ H.sent = <<KickText(H), FailedText(H)>>
            /\ H.e = "removeParticipants"
            /\ ~H.reset
            /\ H.msg.id = delivered =>
                /\ store[KeyOf(H)] # Undefined
                /\ store[KeyOf(H)].count = H.count
            /\ \A g \in Hs :
                LET G == handlers[g]
                IN  (G.pc # "idle" /\ G.msg.id = H.msg.id + 1 /\ G.count > 0) =>
                    /\ G.count = H.count + 1
                    /\ G.pc # "sendWarn"
                    /\ ~SentIncludes(G, WarnText(G))
                    /\ G.pc = "done" => (G.sent[1] = KickText(G) /\ G.removal # "none")

C6_Witness ==
    \E h, g \in Hs :
        /\ handlers[h].pc = "done" /\ handlers[h].removal = "failed"
        /\ handlers[g].pc = "done" /\ handlers[g].msg.id = handlers[h].msg.id + 1
        /\ handlers[g].removal # "none"
        /\ handlers[g].count = handlers[h].count + 1

\* C7: removeParticipants is invoked only for a chat in which the bot holds
\* admin rank; an escalating message handled while it does not gets the kick
\* notice and then the "can't remove" notice, no removal is attempted, and the
\* record stays as the increment left it.
C7_RemoveOnlyWhenBotAdmin ==
    \A h \in Hs :
        LET H == handlers[h]
        IN  /\ H.removal # "none" => BotHoldsAdminRank(H.chat)
            /\ H.pc \in {"remove", "sendRemoved", "reset", "sendFailed"} => BotHoldsAdminRank(H.chat)
            /\ (H.count >= WARN_THRESHOLD /\ ~BotHoldsAdminRank(H.chat)) =>
                /\ H.removal = "none"
                /\ ~H.reset
                /\ (H.pc = "done" /\ H.err = "") => H.sent = <<KickText(H), CantRemoveText>>
                /\ store[KeyOf(H)] # Undefined
                /\ store[KeyOf(H)].count = H.count

C7_Witness ==
    \E h \in Hs :
        /\ handlers[h].pc = "done"
        /\ handlers[h].count >= WARN_THRESHOLD
        /\ ~BotHoldsAdminRank(handlers[h].chat)
        /\ handlers[h].sent = <<KickText(handlers[h]), CantRemoveText>>

NoEffects(H) ==
    /\ H.pc \in {"getContact", "filter", "done"}
    /\ H.record = Undefined
    /\ H.count = 0
    /\ ~H.deleted
    /\ H.sent = <<>>
    /\ H.removal = "none"
    /\ ~H.reset

\* C8: a message of a participant who holds admin rank in the group, whatever
\* its content, never reaches the increment, is not deleted, gets no notice
\* and no removal.
C8_AdminExempt ==
    \A h \in Hs :
        LET H == handlers[h]
        IN  (H.chat # Undefined /\ SenderHoldsAdminRank(H)) => NoEffects(H)

C8_Witness ==
    \E h \in Hs :
        /\ handlers[h].pc = "done" /\ handlers[h].err = ""
        /\ SenderHoldsAdminRank(handlers[h])
        /\ hasLinkIn(handlers[h].msg)
        /\ enforced(handlers[h].chat.id)
        /\ \E k \in Keys : store[k] # Undefined

\* C9: with a non-empty ENFORCE_GROUP_IDS, a message in a chat that is not
\* listed has no effect at all; with an empty list, a violating message of a
\* non-admin in any group reaches the increment.
C9_ScopedEnforcement ==
    \A h \in Hs :
        LET H == handlers[h]
            listed == \E i \in 1..Len(ENFORCE_GROUP_IDS) : ENFORCE_GROUP_IDS[i] = H.chat.id
        IN  H.chat # Undefined =>
            /\ (Len(ENFORCE_GROUP_IDS) > 0 /\ ~listed) => NoEffects(H)
            /\ ( /\ Len(ENFORCE_GROUP_IDS) = 0
                 /\ H.pc = "done" /\ H.err # "getContact"
                 /\ H.chat.isGroup
                 /\ ~SenderHoldsAdminRank(H)
                 /\ ~StartsWithLinkguard(H.msg.body)
                 /\ (hasLinkIn(H.msg) \/ isVoice(H.msg)) )
               => (H.record # Undefined \/ H.err = "getItem")

C9_Witness ==
    \E h \in Hs :
        /\ handlers[h].pc = "done" /\ handlers[h].err = ""
        /\ Len(ENFORCE_GROUP_IDS) > 0
        /\ handlers[h].chat.id = "g2"
        /\ ~SenderHoldsAdminRank(handlers[h])
        /\ hasLinkIn(handlers[h].msg)
        /\ store = NeverSeen

\* C10: a moderated message whose msg.delete fails still gets its warning or
\* kick notice: a handler that finished after the increment without deleting
\* the message has sent, or at least tried to send, the notice.
C10_DeleteBestEffort ==
    \A h \in Hs :
        LET H == handlers[h]
        IN  (H.pc = "done" /\ H.count > 0 /\ ~H.deleted) =>
                (H.sent # <<>> \/ H.err = "sendMessage")

\* C11: when getItem or setItem rejects during the increment, the handler
\* ends there: the message is not deleted, no notice is sent, no removal is
\* attempted, no count is returned, and the step leaves the store unchanged;
\* a handler goes on past getItem only with the stored count (0 only when
\* there is no record), and past setItem only with its record stored.
C11_StoreFailureAborts ==
    [][\A h \in Hs :
        /\ (handlers[h].pc = "getItem" /\ handlers'[h].pc # "done") =>
            handlers'[h].record.count =
                getWarningsOf(store, handlers[h].chat.id, handlers[h].sender.id).count + 1
        /\ (handlers[h].pc = "setItem" /\ handlers'[h].pc # "done") =>
            store'[KeyOf(handlers[h])] = handlers[h].record
        /\ (handlers[h].pc \in {"getItem", "setItem"} /\ handlers'[h].pc = "done") =>
            /\ handlers'[h].err \in {"getItem", "setItem"}
            /\ handlers'[h].count = 0
            /\ ~handlers'[h].deleted
            /\ handlers'[h].sent = <<>>
            /\ handlers'[h].removal = "none"
            /\ ~handlers'[h].reset
            /\ store' = store]_vars

C11_Witness ==
    \E h \in Hs :
        /\ handlers[h].pc = "done"
        /\ handlers[h].err = "setItem"
        /\ handlers[h].record # Undefined
        /\ handlers[h].record.count = 2
        /\ store[KeyOf(handlers[h])].count = 1

\* ---------------------------------------------------------------------
\* One member of one group posts links and status commands, one event at a time, and every
\* awaited call may reject; an awaited call always settles, so a handler that
\* can take a step eventually takes one.
IsolationMessages ==
    ConcMessages \cup
    {m \in Messages : m.chat = "g1" /\ m.author = "u1" /\ StatusRegex(m.body)}

IsolationStep(h) ==
    \E ok \in BOOLEAN :
        \/ \E br \in {"member", "admin"} : GetChat(h, ok, "member", br)
        \/ \E c \in ConcContacts : GetContact(h, ok, c)
        \/ Effects(h, ok)

NextIsolation ==
    \E h \in Hs :
        \/ \E m \in IsolationMessages :
            /\ Quiet
            /\ h = (delivered % NumHandlers) + 1
            /\ Deliver(h, m, MaxScenarioMsgs)
        \/ IsolationStep(h)

SpecIsolation ==
    Init /\ [][NextIsolation]_vars /\ \A h \in Hs : WF_vars(IsolationStep(h))

Running(h) == handlers[h].pc \notin {"idle", "done"}

\* the handler of the next event ran with every call resolving
RanClean(G) == G.pc = "done" /\ G.err = "" /\ G.removal # "failed"

\* C12: whatever calls reject while a message is handled, the error is caught
\* inside the handler (it ends, the error logged), every started handler ends,
\* and the next message, when its own calls resolve, is counted, deleted and
\* answered with the warn or kick notice as usual.
C12_FailureIsolation ==
    /\ [](\A h \in Hs :
            /\ handlers[h].pc \in {"idle", "getChat", "getContact", "filter", "sendStatus",
                                   "getItem", "setItem", "delete", "sendKick", "remove",
                                   "sendRemoved", "reset", "sendFailed", "sendCantRemove",
                                   "sendWarn", "done"}
            /\ handlers[h].err # "" => handlers[h].pc = "done")
    /\ \A h \in Hs : Running(h) ~> (handlers[h].pc = "done")
    /\ [](\A h, g \in Hs :
            ( /\ handlers[h].pc = "done"
              /\ (handlers[h].err # "" \/ handlers[h].removal = "failed")
              /\ handlers[g].pc # "idle"
              /\ handlers[g].msg.id = handlers[h].msg.id + 1
              /\ RanClean(handlers[g])
              /\ hasLinkIn(handlers[g].msg) )
            => /\ handlers[g].count > 0
               /\ handlers[g].deleted
               /\ handlers[g].sent[1] \in {WarnText(handlers[g]), KickText(handlers[g])})

C12_Witness ==
    \E h, g \in Hs :
        /\ handlers[h].pc = "done"
        /\ handlers[h].removal = "failed" /\ handlers[h].err = "sendMessage"
        /\ RanClean(handlers[g])
        /\ handlers[g].msg.id = handlers[h].msg.id + 1
        /\ handlers[g].removal = "ok"

\* the body is the '!linkguard status' command
IsStatusCommand(H) ==
    /\ Len(H.msg.body) >= 3
    /\ H.msg.body[1] = "!linkguard" /\ H.msg.body[2] = " " /\ H.msg.body[3] = "status"

\* the chat of the handler is a group this process enforces
InEnforcedGroup(H) ==
    /\ H.chat.isGroup
    /\ (Len(ENFORCE_GROUP_IDS) = 0 \/
        \E i \in 1..Len(ENFORCE_GROUP_IDS) : ENFORCE_GROUP_IDS[i] = H.chat.id)

\* C13: a '!linkguard status' message in an enforced group whose issuer is a
\* group admin, or while the bot is a group admin, is answered with the
\* threshold and the group name (when the lookups and the send succeed).
C13_StatusAuthorized ==
    \A h \in Hs :
        LET H == handlers[h]
        IN  ( /\ H.pc = "done" /\ H.err = ""
              /\ IsStatusCommand(H)
              /\ InEnforcedGroup(H)
              /\ (SenderHoldsAdminRank(H) \/ BotHoldsAdminRank(H.chat)) )
            => H.sent = <<StatusText(H.chat)>>

\* the body starts with '!linkguard'
IsCommand(H) == Len(H.msg.body) >= 1 /\ H.msg.body[1] = "!linkguard"

\* C14: a '!linkguard' message whose sub-command is not 'status' is ignored,
\* whoever sends it and whatever else it contains: no reply, no warning
\* record touched, no deletion, no removal.
C14_UnknownCommandIgnored ==
    \A h \in Hs :
        LET H == handlers[h]
        IN  (H.pc \notin {"idle", "getChat"} /\ IsCommand(H) /\ ~IsStatusCommand(H))
            => NoEffects(H)

\* ---------------------------------------------------------------------
\* Display names are chosen by the users: the member's pushname may itself
\* hold placeholder text or a `$` pattern.
HostileContacts(u) ==
    { [id |-> u, pushname |-> <<"{count}">>, verifiedName |-> <<>>, number |-> <<"555">>],
      [id |-> u, pushname |-> <<"$&">>, verifiedName |-> <<>>, number |-> <<"555">>] }

NextFormat ==
    \/ \E m \in ConcMessages : Deliver(1, m, MaxScenarioMsgs)
    \/ \E br \in {"member", "admin"} : GetChat(1, TRUE, "member", br)
    \/ \E c \in Contacts("u1") \cup HostileContacts("u1") : GetContact(1, TRUE, c)
    \/ Filter(1)
    \/ GetItem(1, TRUE)
    \/ SetItem(1, TRUE)
    \/ Delete(1, TRUE)
    \/ SendKick(1, TRUE)
    \/ RemoveParticipants(1, TRUE)
    \/ SendRemoved(1, TRUE)
    \/ ResetWarnings(1, TRUE)
    \/ SendCantRemove(1, TRUE)
    \/ SendWarn(1, TRUE)

SpecFormat == Init /\ [][NextFormat]_vars

RECURSIVE VerbatimFrom(_, _, _)
\* the template from position i on, the first {name}, {count} and {limit} of
\* the template replaced by their values as they are, everything else kept
VerbatimFrom(tpl, ctx, i) ==
    IF i > Len(tpl) THEN <<>>
    ELSE (CASE i = IndexOf(tpl, "{name}") -> ctx.name
            [] i = IndexOf(tpl, "{count}") -> <<ToString(ctx.count)>>
            [] i = IndexOf(tpl, "{limit}") -> <<ToString(ctx.limit)>>
            [] OTHER -> <<tpl[i]>>)
         \o VerbatimFrom(tpl, ctx, i + 1)

\* C15: the rendered notice is the template with the first {name}, {count}
\* and {limit} each replaced once by its value, inserted verbatim, all other
\* text unchanged, also when the name holds placeholder text.
C15_FormatVerbatim ==
    \A h \in Hs :
        LET H == handlers[h]
        IN  (H.count > 0 /\ H.sent # <<>>) =>
                H.sent[1] = VerbatimFrom(IF H.count >= WARN_THRESHOLD
                                         THEN KICK_TEMPLATE ELSE WARN_TEMPLATE,
                                         Ctx(H), 1)

\* C16: whenever removeParticipants succeeded, the record of that member is
\* absent when the handler finishes and no removal-failure notice was sent,
\* whether or not the confirmation could be sent (the store call of the
\* reset itself not failing).
C16_ResetAfterRemoval ==
    \A h \in Hs :
        LET H == handlers[h]
        IN  (H.pc = "done" /\ H.removal = "ok" /\ H.e # "removeItem") =>
                /\ store[KeyOf(H)] = Undefined
                /\ ~SentIncludes(H, FailedText(H))

\* C17: with two link messages of one member handled concurrently, once a
\* handler has removed the member and reset the record, the record is absent
\* or has count 1 when all handlers have finished, and an increment never
\* writes an accumulated count (above 1) over a record that is absent at the
\* time of its write.
C17_ResetLinearizable ==
    /\ []((Quiet /\ \E h \in Hs : handlers[h].reset) =>
            getWarningsOf(store, "g1", "u1").count \in {0, 1})
    /\ [][\A h \in Hs :
            ( /\ handlers[h].pc = "setItem" /\ handlers'[h].pc = "delete"
              /\ store[KeyOf(handlers[h])] = Undefined )
            => store'[KeyOf(handlers[h])].count = 1]_vars

OpaqueGroups == {"g1", "g1:u1"}
OpaqueUsers == {"u1", "u1:u1"}
OpaqueKeys == {keyFor(g, u) : g \in OpaqueGroups, u \in OpaqueUsers}

OpaqueMessages ==
    { [chat |-> g, author |-> u, body |-> <<"see ", "http://x.com">>, caption |-> <<>>,
       media |-> "none"] : g \in OpaqueGroups, u \in OpaqueUsers }

InitKeys ==
    /\ WARN_THRESHOLD \in Thresholds
    /\ ENFORCE_GROUP_IDS = parseEnforceGroupIds(<<"">>)
    /\ store = [k \in OpaqueKeys |-> Undefined]
    /\ handlers = [h \in Hs |-> Idle]
    /\ delivered = 0

\* link messages of the members of these groups, handled one at a time, every
\* awaited call resolving
NextKeys ==
    \/ \E m \in OpaqueMessages : Deliver(1, m, MaxScenarioMsgs)
    \/ \E br \in {"member", "admin"} : GetChat(1, TRUE, "member", br)
    \/ \E u \in OpaqueUsers : \E c \in {x \in Contacts(u) : x.pushname # <<>>} : GetContact(1, TRUE, c)
    \/ Filter(1)
    \/ GetItem(1, TRUE)
    \/ SetItem(1, TRUE)
    \/ Delete(1, TRUE)
    \/ SendKick(1, TRUE)
    \/ RemoveParticipants(1, TRUE)
    \/ SendRemoved(1, TRUE)
    \/ ResetWarnings(1, TRUE)
    \/ SendCantRemove(1, TRUE)
    \/ SendWarn(1, TRUE)

SpecKeys == InitKeys /\ [][NextKeys]_vars

\* C19: distinct (groupId, userId) pairs have distinct storage keys, so the
\* step that writes or removes the record of one pair (setItem of the
\* increment, removeItem of the reset) leaves the record of every other pair
\* as it was.
C19_PairsIsolated ==
    [][\A h \in Hs :
        (handlers[h].pc \in {"setItem", "reset"} /\ handlers'[h].pc # handlers[h].pc) =>
            \A g \in OpaqueGroups, u \in OpaqueUsers :
                <<g, u>> # <<handlers[h].chat.id, handlers[h].sender.id>> =>
                    /\ keyFor(g, u) # KeyOf(handlers[h])
                    /\ getWarningsOf(store', g, u) = getWarningsOf(store, g, u)]_vars

\* C20: a message whose body starts with '!linkguard', sent by a non-admin
\* while the bot is not a group admin either, makes the handler return at
\* once: no reply, no warning record touched, no deletion, no removal, even
\* when the body also contains a link.
C20_UnauthorizedCommandReturns ==
    \A h \in Hs :
        LET H == handlers[h]
        IN  ( /\ H.chat # Undefined
              /\ IsCommand(H)
              /\ ~SenderHoldsAdminRank(H)
              /\ ~BotHoldsAdminRank(H.chat) )
            => NoEffects(H)

C20_Witness ==
    \E h \in Hs :
        /\ handlers[h].pc = "done" /\ handlers[h].err = ""
        /\ IsCommand(handlers[h])
        /\ LINK_REGEX(handlers[h].msg.body)
        /\ InEnforcedGroup(handlers[h])
        /\ ~SenderHoldsAdminRank(handlers[h])
        /\ ~BotHoldsAdminRank(handlers[h].chat)
        /\ handlers[h].sent = <<>>

====
